---- MODULE Spec2Model ----
(***************************************************************************)
(* DeepGalaxyTraining (deep_galaxy_training.py): one worker process that   *)
(* owns one DeepGalaxyTraining object and calls its five phases            *)
(* (initialize, load_data, load_model, fit, save_model) in any order.      *)
(* The frameworks it calls (Keras, Horovod, logging, DataIO) are modelled  *)
(* by what the object passes to them and receives from them.               *)
(***************************************************************************)
EXTENDS Integers, Sequences, FiniteSets, TLC

(* ----------------------------- bounds --------------------------------- *)
\* initialize() adds a FileHandler (and, when distributed, three callbacks)
\* on every call: the number of initialize() calls of a run is bounded.
MaxInit == 2
\* the largest number of workers the communication library reports (a run
\* has 1 or MaxWorkers workers, and this worker is the first or the last)
MaxWorkers == 2

(* ----------------------------- values --------------------------------- *)
\* Python's None: a string where the field holds a name, a record where it
\* holds an object (an array, a model)
None == "None"
NoneObj == [tag |-> "None"]
DataFns == {"galaxy_a.h5", "galaxy_b.h5"}
Patterns == {"s_*"}
CameraPos == {"cam0"}
\* test_size in tenths: 0 and the default 0.2
TestSizes == {0, 2}
\* noise_stddev in tenths: 0 and the default 0.3
NoiseLevels == {0, 3}
BaseModels == {"EfficientNetB4", "ResNet50"}
TrainingResults == {"done", "interrupt", "error"}

VARIABLES
    \* fields of the DeepGalaxyTraining object
    distributed_training, multi_gpu_training, noise_stddev, base_model_name,
    input_shape, num_classes, model, multi_gpu_model,
    x_train, y_train, x_test, y_test,
    data_fn_c, dset_name_pattern_c, camera_pos_c,
    callbacks, logger, t_start, t_end,
    \* the process's environment
    hvdAvailable, hvdInit, hvd_size, hvd_rank, handlers, artifacts,
    \* what the most recent call did (its arguments, its result, what it
    \* appended to the log, printed, loaded, saved, trained)
    call

fields == <<distributed_training, multi_gpu_training, noise_stddev, base_model_name,
            input_shape, num_classes, model, multi_gpu_model,
            x_train, y_train, x_test, y_test,
            data_fn_c, dset_name_pattern_c, camera_pos_c,
            callbacks, logger, t_start, t_end>>
env == <<hvdAvailable, hvdInit, hvd_size, hvd_rank, handlers, artifacts>>
vars == <<fields, env, call>>

(* ------------------------- the call record ---------------------------- *)
NoArgs == [data_fn |-> None, dset_name_pattern |-> None, camera_pos |-> None, test_size |-> 0]

NoCall == [op |-> "none", outcome |-> "ok", requested |-> FALSE, args |-> NoArgs,
           logged |-> <<>>, printed |-> <<>>, loads |-> <<>>, saved |-> <<>>,
           target |-> NoneObj, training |-> None, finallyRuns |-> 0]

(* ------------------------ external libraries -------------------------- *)
\* logging: a record handed to the logger is written once by each
\* FileHandler attached to it.
Emit(h, msgs) == [i \in 1..(h * Len(msgs)) |-> msgs[((i - 1) \div h) + 1]]

\* the communication library answers rank()/size() once it is imported and
\* initialised
HvdReady == hvdAvailable /\ hvdInit
HvdError == IF hvdAvailable THEN "HorovodNotInitialized" ELSE "NameError"

Count(s, m) == Cardinality({i \in 1..Len(s) : s[i] = m})

(* ----------------------------- __init__ ------------------------------- *)
Init ==
    /\ distributed_training \in BOOLEAN
    /\ multi_gpu_training \in BOOLEAN
    /\ noise_stddev \in NoiseLevels
    /\ base_model_name \in BaseModels
    /\ input_shape = 512
    /\ num_classes = 0
    /\ model = NoneObj
    /\ multi_gpu_model = NoneObj
    /\ x_train = NoneObj /\ y_train = NoneObj /\ x_test = NoneObj /\ y_test = NoneObj
    /\ data_fn_c = None /\ dset_name_pattern_c = None /\ camera_pos_c = None
    /\ callbacks = <<>>
    /\ logger = None
    /\ t_start = 0 /\ t_end = 0
    /\ hvdAvailable \in BOOLEAN
    /\ hvdInit = FALSE
    /\ hvd_size \in IF hvdAvailable THEN {1, MaxWorkers} ELSE {1}
    /\ hvd_rank \in {0, hvd_size - 1}
    /\ handlers = 0
    /\ artifacts = {}
    /\ call = NoCall

(* ---------------------------- initialize ------------------------------ *)
DisabledMsgs == <<"Parallel training disabled.", "Batch_size">>

\* lines 121-128 and 130-135: the logger of the non-distributed process
SerialLogger(requested) ==
    /\ logger' = "DeepGalaxyTrain"
    /\ handlers' = handlers + 1
    /\ call' = [NoCall EXCEPT !.op = "initialize", !.requested = requested,
                              !.logged = Emit(handlers + 1, DisabledMsgs)]

\* the except branch without `self.distributed_training = False`
initialize_fallback_keeps_flag ==
    /\ distributed_training /\ ~hvdAvailable
    /\ SerialLogger(TRUE)
    /\ UNCHANGED <<distributed_training, callbacks, hvdInit>>

initialize_fallback ==
    /\ distributed_training /\ ~hvdAvailable
    /\ distributed_training' = FALSE
    /\ SerialLogger(TRUE)
    /\ UNCHANGED <<callbacks, hvdInit>>

initialize_serial ==
    /\ ~distributed_training
    /\ SerialLogger(FALSE)
    /\ UNCHANGED <<distributed_training, callbacks, hvdInit>>

initialize_distributed ==
    /\ distributed_training /\ hvdAvailable
    /\ hvdInit' = TRUE
    /\ IF hvd_rank = 0
       THEN /\ logger' = "DeepGalaxyTrain"
            /\ handlers' = handlers + 1
            /\ call' = [NoCall EXCEPT !.op = "initialize", !.requested = TRUE,
                          !.printed = <<"hvd_rank">>,
                          !.logged = Emit(handlers + 1,
                              <<"Parallel training enabled.", "batch_size", "hvd_rank">>)]
       ELSE /\ UNCHANGED <<logger, handlers>>
            /\ call' = [NoCall EXCEPT !.op = "initialize", !.requested = TRUE,
                          !.printed = <<"hvd_rank">>]
    /\ callbacks' = callbacks \o <<"BroadcastGlobalVariablesCallback",
                                   "MetricAverageCallback", "DataReshuffleCallback">>
    /\ UNCHANGED distributed_training

initialize ==
    /\ handlers < MaxInit /\ Len(callbacks) < 3 * MaxInit
    /\ \/ initialize_fallback
       \/ initialize_serial
       \/ initialize_distributed
    /\ UNCHANGED <<multi_gpu_training, noise_stddev, base_model_name, input_shape,
                   num_classes, model, multi_gpu_model, x_train, y_train, x_test, y_test,
                   data_fn_c, dset_name_pattern_c, camera_pos_c, t_start, t_end,
                   hvdAvailable, hvd_size, hvd_rank, artifacts>>

(* ----------------------------- DataIO --------------------------------- *)
\* data_io_new.DataIO: the arrays a load returns, named by what was asked for
Resolution(fn) == IF fn = "galaxy_a.h5" THEN 256 ELSE 512
Classes(fn) == IF fn = "galaxy_a.h5" THEN 3 ELSE 5

load_all(fn, pat, cam) ==
    [path |-> "load_all", data_fn |-> fn, dset_name_pattern |-> pat, camera_pos |-> cam,
     part |-> <<>>]

load_partial(fn, pat, cam, size, rank) ==
    [path |-> "load_partial", data_fn |-> fn, dset_name_pattern |-> pat, camera_pos |-> cam,
     part |-> <<size, rank>>]

\* the X and Y arrays of one load
ArrayX(ld) == [tag |-> "X", of |-> ld]
ArrayY(ld) == [tag |-> "Y", of |-> ld]

\* sklearn's train_test_split(X, Y, test_size, random_state=42): one
\* deterministic split of the arrays it is given
train_test_split(ld, ts) ==
    [x_train |-> [tag |-> "x_train", of |-> ld, test_size |-> ts],
     x_test  |-> [tag |-> "x_test",  of |-> ld, test_size |-> ts],
     y_train |-> [tag |-> "y_train", of |-> ld, test_size |-> ts],
     y_test  |-> [tag |-> "y_test",  of |-> ld, test_size |-> ts]]

(* ----------------------------- load_data ------------------------------ *)
Complete(fn, pat, cam) == fn # None /\ pat # None /\ cam # None

Cached == Complete(data_fn_c, dset_name_pattern_c, camera_pos_c)

\* the selection without its final `else: raise ValueError`
ChosenTriple_unvalidated(a) ==
    IF Complete(a.data_fn, a.dset_name_pattern, a.camera_pos)
    THEN <<a.data_fn, a.dset_name_pattern, a.camera_pos>>
    ELSE <<data_fn_c, dset_name_pattern_c, camera_pos_c>>

\* the selection that lets each supplied argument override its cached value
ChosenTriple_merged(a) ==
    LET pick(x, c) == IF x # None THEN x ELSE c
        t == <<pick(a.data_fn, data_fn_c), pick(a.dset_name_pattern, dset_name_pattern_c),
               pick(a.camera_pos, camera_pos_c)>>
    IN  IF Complete(t[1], t[2], t[3]) THEN t ELSE <<>>

\* lines 139-148: the triple the call goes on with ("ValueError" when none)
ChosenTriple(a) ==
    IF Complete(a.data_fn, a.dset_name_pattern, a.camera_pos)
    THEN <<a.data_fn, a.dset_name_pattern, a.camera_pos>>
    ELSE IF Cached
         THEN <<data_fn_c, dset_name_pattern_c, camera_pos_c>>
         ELSE <<>>

\* load_partial called with hvd_size and hvd_rank exchanged
LoaderCall_swapped(t) ==
    IF ~distributed_training
    THEN load_all(t[1], t[2], t[3])
    ELSE load_partial(t[1], t[2], t[3], hvd_rank, hvd_size)

\* lines 150-160: the loader call of this worker
LoaderCall(t) ==
    IF ~distributed_training
    THEN load_all(t[1], t[2], t[3])
    ELSE load_partial(t[1], t[2], t[3], hvd_size, hvd_rank)

\* lines 150-160 and 174-178: what the call appends to the log
LoadDataLog ==
    IF ~distributed_training
    THEN Emit(handlers, <<"Loading the full dataset", "Shape of X", "Shape of Y",
                          "Number of classes">>)
    ELSE IF hvd_rank = 0
         THEN Emit(handlers, <<"Loading part of the dataset", "Shape of X", "Shape of Y",
                               "Number of classes">>)
         ELSE <<>>

\* the else branch also resetting the test arrays
AssignSplit_clearsTest(ld, ts) ==
    IF ts > 0
    THEN /\ x_train' = train_test_split(ld, ts).x_train
         /\ x_test'  = train_test_split(ld, ts).x_test
         /\ y_train' = train_test_split(ld, ts).y_train
         /\ y_test'  = train_test_split(ld, ts).y_test
    ELSE /\ x_train' = ArrayX(ld)
         /\ y_train' = ArrayY(ld)
         /\ x_test' = NoneObj
         /\ y_test' = NoneObj

\* lines 165-173
AssignSplit(ld, ts) ==
    IF ts > 0
    THEN /\ x_train' = train_test_split(ld, ts).x_train
         /\ x_test'  = train_test_split(ld, ts).x_test
         /\ y_train' = train_test_split(ld, ts).y_train
         /\ y_test'  = train_test_split(ld, ts).y_test
    ELSE /\ x_train' = ArrayX(ld)
         /\ y_train' = ArrayY(ld)
         /\ UNCHANGED <<x_test, y_test>>

load_data_body(a) ==
    LET t == ChosenTriple(a)
        c == [NoCall EXCEPT !.op = "load_data", !.args = a]
    IN  IF t = <<>>
        THEN \* line 148
             /\ call' = [c EXCEPT !.outcome = "ValueError"]
             /\ UNCHANGED <<data_fn_c, dset_name_pattern_c, camera_pos_c, num_classes,
                            input_shape, x_train, y_train, x_test, y_test>>
        ELSE /\ data_fn_c' = t[1]
             /\ dset_name_pattern_c' = t[2]
             /\ camera_pos_c' = t[3]
             /\ IF ~distributed_training /\ logger = None
                THEN \* line 151: self.logger is None
                     /\ call' = [c EXCEPT !.outcome = "AttributeError"]
                     /\ UNCHANGED <<num_classes, input_shape,
                                    x_train, y_train, x_test, y_test>>
                ELSE IF distributed_training /\ ~HvdReady
                THEN \* line 156: hvd.size()
                     /\ call' = [c EXCEPT !.outcome = HvdError]
                     /\ UNCHANGED <<num_classes, input_shape,
                                    x_train, y_train, x_test, y_test>>
                ELSE /\ num_classes' = Classes(t[1])
                     /\ input_shape' = Resolution(t[1])
                     /\ AssignSplit(LoaderCall(t), a.test_size)
                     /\ call' = [c EXCEPT !.loads = <<LoaderCall(t)>>,
                                          !.logged = LoadDataLog]

load_data ==
    /\ \E fn \in DataFns \cup {None}, pat \in Patterns \cup {None},
          cam \in CameraPos \cup {None}, ts \in TestSizes :
          load_data_body([data_fn |-> fn, dset_name_pattern |-> pat,
                          camera_pos |-> cam, test_size |-> ts])
    /\ UNCHANGED <<distributed_training, multi_gpu_training, noise_stddev, base_model_name,
                   model, multi_gpu_model, callbacks, logger, t_start, t_end, env>>

(* ----------------------------- load_model ----------------------------- *)
\* lines 193-215: the Sequential model, with a GaussianNoise layer unless
\* noise_stddev == 0; not compiled yet
Sequential ==
    [tag |-> "Model", noise |-> (noise_stddev # 0), parallel |-> FALSE,
     compiled |-> FALSE, optimizer |-> None]

\* lines 217-224
Optimizer == IF distributed_training THEN "DistributedOptimizer(Adadelta)" ELSE "Adam"

\* lines 234-236 and 241-243: compile(loss, optimizer, metrics)
Compile(m) == [m EXCEPT !.compiled = TRUE, !.optimizer = Optimizer]

\* line 233: tf.keras.utils.multi_gpu_model(model, gpus)
MultiGpu(m) == [m EXCEPT !.parallel = TRUE]

load_model ==
    /\ IF distributed_training /\ ~HvdReady
       THEN \* line 220: hvd.size()
            /\ call' = [NoCall EXCEPT !.op = "load_model", !.outcome = HvdError]
            /\ UNCHANGED <<model, multi_gpu_model>>
       ELSE /\ call' = [NoCall EXCEPT !.op = "load_model", !.printed = <<"summary">>]
            /\ IF multi_gpu_training
               THEN /\ multi_gpu_model' = Compile(MultiGpu(Sequential))
                    /\ model' = Sequential
               ELSE /\ model' = Compile(Sequential)
                    /\ UNCHANGED multi_gpu_model
    /\ UNCHANGED <<distributed_training, multi_gpu_training, noise_stddev, base_model_name,
                   input_shape, num_classes, x_train, y_train, x_test, y_test,
                   data_fn_c, dset_name_pattern_c, camera_pos_c, callbacks, logger,
                   t_start, t_end, env>>

(* -------------------------------- fit --------------------------------- *)
\* datetime.now(): 0 is the int __init__ stores, 1 a datetime
Now == 1

\* lines 258, 291, 300: the object whose fit() is called
FitTarget ==
    IF distributed_training THEN model
    ELSE IF multi_gpu_training THEN multi_gpu_model ELSE model

\* lines 258, 291, 300: how the framework's training call can end on object
\* m (Keras refuses to train a model that was not compiled)
ResultsOf(m) == IF m.compiled THEN TrainingResults ELSE {"error"}

\* the try statement without its `except KeyboardInterrupt` clause
AfterExcept_noHandler(r) ==
    IF r = "interrupt" THEN "KeyboardInterrupt"
    ELSE IF r = "error" THEN "FrameworkError" ELSE "ok"

\* lines 277-278 and 306-307: what becomes of the training call's result
\* once the except clause has seen it
AfterExcept(r) == IF r = "interrupt" THEN "ok" ELSE IF r = "error" THEN "FrameworkError" ELSE "ok"

\* the distributed finally block printing what the serial one prints
FinallyPrint_elapsedOnly == <<"Elapsed time", "Saving model...">>

\* lines 280 and 310-311: what the finally block prints
FinallyPrint ==
    IF distributed_training THEN <<"memory">> ELSE <<"Elapsed time", "Saving model...">>

\* lines 252-286
fit_distributed(r) ==
    /\ distributed_training
    /\ t_start' = Now
    /\ t_end' = Now
    /\ (model # NoneObj /\ HvdReady) => r \in ResultsOf(model)
    /\ LET trained == model # NoneObj /\ HvdReady
           base == [NoCall EXCEPT !.op = "fit",
                       !.target = IF trained THEN model ELSE NoneObj,
                       !.training = IF trained THEN r ELSE None,
                       !.finallyRuns = 1]
           out == IF ~HvdReady THEN HvdError
                  ELSE IF model = NoneObj THEN "AttributeError"
                  ELSE AfterExcept(r)
       IN  call' = [base EXCEPT
                       !.outcome = out,
                       !.printed = (IF trained /\ r = "interrupt"
                                    THEN <<"Terminating due to Ctrl+C...">> ELSE <<>>)
                                   \o FinallyPrint
                                   \o (IF out = "ok" THEN <<"flops">> ELSE <<>>),
                       !.logged = IF HvdReady /\ hvd_rank = 0
                                  THEN Emit(handlers, <<"memory", "Time is now">>)
                                  ELSE <<>>]

\* lines 287-311
fit_serial(r) ==
    /\ ~distributed_training
    /\ t_start' = Now
    /\ t_end' = Now
    /\ FitTarget # NoneObj => r \in ResultsOf(FitTarget)
    /\ LET trained == FitTarget # NoneObj
           out == IF trained THEN AfterExcept(r) ELSE "AttributeError"
       IN  call' = [NoCall EXCEPT !.op = "fit",
                       !.target = FitTarget,
                       !.training = IF trained THEN r ELSE None,
                       !.finallyRuns = 1,
                       !.outcome = out,
                       !.printed = FinallyPrint
                                   \o (IF out = "ok" THEN <<"flops">> ELSE <<>>)]

fit ==
    /\ \E r \in TrainingResults : fit_distributed(r) \/ fit_serial(r)
    /\ UNCHANGED <<distributed_training, multi_gpu_training, noise_stddev, base_model_name,
                   input_shape, num_classes, model, multi_gpu_model,
                   x_train, y_train, x_test, y_test,
                   data_fn_c, dset_name_pattern_c, camera_pos_c, callbacks, logger, env>>

(* ----------------------------- save_model ----------------------------- *)
\* lines 317 and 322: Python reads `noise_stddev > 0 is True` as the chain
\* (noise_stddev > 0) and (0 is True), and 0 is not the object True
NoiseBranch(stddev) == (stddev > 0) /\ FALSE

\* lines 318, 320, 323, 325: 'model_%d_%s[_noise][_np_%d].h5' (np = 0: no
\* worker-count part)
FileName(res, base, noise, np) ==
    [resolution |-> res, base |-> base, noise |-> noise, np |-> np]

\* the name save_model() writes when noise_stddev is stddev
SavedNameWith(stddev) ==
    FileName(input_shape, base_model_name, NoiseBranch(stddev),
             IF distributed_training THEN hvd_size ELSE 0)

SavedName == SavedNameWith(noise_stddev)

\* save_model() without its `hvd.rank() == 0` test
Writes_everyRank == TRUE

\* lines 315-316: whether this worker writes the file
Writes == IF distributed_training THEN hvd_rank = 0 ELSE TRUE

save_model ==
    /\ IF distributed_training /\ ~HvdReady
       THEN \* line 316: hvd.rank()
            /\ call' = [NoCall EXCEPT !.op = "save_model", !.outcome = HvdError]
            /\ UNCHANGED artifacts
       ELSE IF ~Writes
       THEN /\ call' = [NoCall EXCEPT !.op = "save_model"]
            /\ UNCHANGED artifacts
       ELSE IF model = NoneObj
       THEN /\ call' = [NoCall EXCEPT !.op = "save_model", !.outcome = "AttributeError"]
            /\ UNCHANGED artifacts
       ELSE /\ call' = [NoCall EXCEPT !.op = "save_model", !.saved = <<SavedName>>]
            /\ artifacts' = artifacts \cup {SavedName}
    /\ UNCHANGED <<fields, hvdAvailable, hvdInit, hvd_size, hvd_rank, handlers>>

Next ==
    \/ initialize
    \/ load_data
    \/ load_model
    \/ fit
    \/ save_model

Spec == Init /\ [][Next]_vars

(* ============================== claims ================================ *)
Triple(r) == <<r.data_fn, r.dset_name_pattern, r.camera_pos>>
Cache == <<data_fn_c, dset_name_pattern_c, camera_pos_c>>
Arrays == <<x_train, y_train, x_test, y_test>>
IsLoadData == call.op = "load_data"

C2_InterruptContained ==
    (call.op = "fit" /\ call.training = "interrupt")
        => /\ call.outcome = "ok"
           /\ call.finallyRuns = 1
           /\ t_end = Now

C2_Witness ==
    /\ call.op = "fit" /\ call.training = "interrupt"
    /\ distributed_training /\ hvd_rank # 0

\* C3: with noise_stddev > 0 the file name save_model() writes differs from
\* the one the same object writes with noise_stddev = 0.
C3_NoiseChangesName ==
    (call.op = "save_model" /\ call.saved # <<>> /\ noise_stddev > 0)
        => call.saved[1] # SavedNameWith(0)

\* C4: load_data() with no argument on an object with no cached triple ends
\* in the ValueError, calls no loader and changes no field.
C4_NoArgsNoCache ==
    [][(call'.op = "load_data" /\ Triple(call'.args) = <<None, None, None>> /\ ~Cached)
          => /\ call'.outcome = "ValueError"
             /\ call'.loads = <<>>
             /\ UNCHANGED fields]_vars

C4_Witness ==
    /\ IsLoadData /\ Triple(call.args) = <<None, None, None>>
    /\ call.outcome = "ValueError" /\ ~Cached

\* C5: a distributed worker whose rank is not 0 writes nothing to the log
\* and saves no model file; the rank-0 worker is the one that saves.
C5_OnlyRankZeroWrites ==
    /\ (distributed_training /\ hvd_rank # 0)
          => /\ call.logged = <<>> /\ call.saved = <<>>
             /\ artifacts = {} /\ logger = None
    /\ (distributed_training /\ hvd_rank = 0 /\ call.op = "save_model"
           /\ call.outcome = "ok") => call.saved = <<SavedName>>

C5_Witness ==
    /\ distributed_training /\ HvdReady /\ hvd_rank # 0
    /\ call.op = "save_model" /\ call.outcome = "ok"
    /\ model # NoneObj /\ t_end = Now /\ x_train # NoneObj

\* C6: a successful load_data() calls exactly one loader: load_all when
\* distributed_training is false, load_partial with the library's size and
\* rank when it is true.
C6_OneLoadPath ==
    (IsLoadData /\ call.outcome = "ok")
        => /\ Len(call.loads) = 1
           /\ IF distributed_training
              THEN /\ call.loads[1].path = "load_partial"
                   /\ call.loads[1].part = <<hvd_size, hvd_rank>>
              ELSE /\ call.loads[1].path = "load_all"
                   /\ call.loads[1].part = <<>>

C6_Witness ==
    /\ IsLoadData /\ call.outcome = "ok" /\ distributed_training
    /\ hvd_size = MaxWorkers /\ hvd_rank = MaxWorkers - 1

\* C7: the object fit() trains is one load_model() compiled.
C7_TrainsCompiledModel ==
    (call.op = "fit" /\ call.target # NoneObj) => call.target.compiled

\* C8 (as stated): every fit() emits a memory-usage entry.
C8_AlwaysMemory ==
    call.op = "fit" => Count(call.printed, "memory") + Count(call.logged, "memory") > 0

\* C8 (amended): in distributed mode every fit() prints the memory-usage
\* entry once, and the rank-0 worker also writes it to the log; in
\* non-distributed mode fit() emits no memory-usage entry.
C8_DistributedMemory ==
    call.op = "fit"
        => IF distributed_training
           THEN /\ Count(call.printed, "memory") = 1
                /\ (HvdReady /\ hvd_rank = 0) => Count(call.logged, "memory") >= 1
           ELSE Count(call.printed, "memory") + Count(call.logged, "memory") = 0

C8_Witness ==
    /\ call.op = "fit" /\ distributed_training /\ hvd_rank = 0
    /\ call.training = "interrupt" /\ Count(call.logged, "memory") = 1

\* C9: a load_data() that supplies all three of data_fn, dset_name_pattern
\* and camera_pos caches them; one that supplies fewer leaves the cache as
\* it is, and goes on with the cached triple when there is one (it loads
\* with it whenever the call can reach its loader) and ends in the
\* ValueError when there is none.
C9_CachedTriple ==
    [][call'.op = "load_data"
          => IF Complete(call'.args.data_fn, call'.args.dset_name_pattern,
                         call'.args.camera_pos)
             THEN Cache' = Triple(call'.args)
             ELSE /\ Cache' = Cache
                  /\ IF Cached
                     THEN /\ call'.outcome # "ValueError"
                          /\ call'.loads # <<>> => Triple(call'.loads[1]) = Cache
                          /\ (IF distributed_training THEN HvdReady ELSE logger # None)
                                => call'.loads # <<>>
                     ELSE call'.outcome = "ValueError"]_vars

C9_Witness ==
    /\ IsLoadData /\ call.outcome = "ok"
    /\ call.args.data_fn # None /\ call.args.camera_pos = None
    /\ call.args.data_fn # data_fn_c
    /\ Triple(call.loads[1]) = Cache

\* C10: a successful load_data() with test_size <= 0 stores the whole load
\* in x_train and y_train and leaves x_test and y_test as they were; with
\* test_size > 0 it stores one split of its load in all four; a failed
\* load_data() changes none of the four.
C10_SplitFrame ==
    [][call'.op = "load_data"
          => IF call'.outcome = "ok" /\ call'.loads # <<>>
             THEN LET ld == call'.loads[1]
                      ts == call'.args.test_size
                  IN  IF ts > 0
                      THEN /\ x_train' = train_test_split(ld, ts).x_train
                           /\ x_test'  = train_test_split(ld, ts).x_test
                           /\ y_train' = train_test_split(ld, ts).y_train
                           /\ y_test'  = train_test_split(ld, ts).y_test
                      ELSE /\ x_train' = ArrayX(ld)
                           /\ y_train' = ArrayY(ld)
                           /\ UNCHANGED <<x_test, y_test>>
             ELSE UNCHANGED Arrays]_vars

C10_Witness ==
    /\ IsLoadData /\ call.outcome = "ok" /\ call.args.test_size <= 0
    /\ x_train = ArrayX(call.loads[1])
    /\ x_test # NoneObj
    /\ x_test.of # call.loads[1]
====
